---- MODULE Spec2Model ----
(***************************************************************************)
(* Model of rusty-rays (src/src/main.rs, src/src/math.rs).                 *)
(*                                                                         *)
(*   Spec / LiveSpec : the parallel frame renderer of main(): spawn loop,  *)
(*                     the worker closure, the image-buffer mutex, the     *)
(*                     join loop and the save.                             *)
(*   TraceSpec / TraceLiveSpec : the recursion of trace().                 *)
(*   SceneSpec : intersect_scene() over ray_sphere_intersection().         *)
(*                                                                         *)
(* f32 colour components are fixed-point integers in twentieths (20 is     *)
(* 1.0); f32 distances and coordinates are integers in thousandths (1 is   *)
(* 0.001).                                                                 *)
(***************************************************************************)
EXTENDS Integers, Sequences, FiniteSets, TLC

VARIABLES
    \* ---- render configuration (main.rs:284-286, 303) and sample seed
    threads, screen_height, screen_width, spp, seed,
    \* ---- main thread
    mainpc,      \* "spawn" | "join" | "save" | "done" | "panicked"
    mt,          \* loop index of the spawn loop, then of the join loop
    output,      \* <<>> until the hand-off, then <<the image save() received>>
    \* ---- worker threads (index = t of the spawn loop)
    wpc,         \* "idle" | "while" | "for" | "sample" | "lock" | "put" | "drop" | "done" | "panicked"
    wi, wj, ws,  \* the closure's i, j and the sample counter of `for _ in 0..spp`
    wcolor,      \* the closure's `color` accumulator
    rows,        \* per worker: the rows whose while-body it has entered, in order
    \* ---- Arc<Mutex<RgbImage>>
    lockOwner,   \* worker holding the MutexGuard, or NoOwner
    poisoned,    \* the mutex's poison flag
    imgbuf,      \* the RgbImage: [<<j, i>> -> <<r, g, b>>]
    writes,      \* per coordinate: number of put_pixel calls so far
    oob,         \* some put_pixel call was outside the buffer
    holdWrites,  \* put_pixel calls made under the current guard
    \* ---- trace() recursion
    tpc,         \* "idle" | "call" | "return" | "done"
    tdepth,      \* depth argument of the innermost active call
    tstart,      \* depth argument of the outermost call
    tstack,      \* attenuations of the calls waiting for their recursive result
    tresult,     \* value returned by the call that returned last
    tchild,      \* value the recursive call returned, before the multiplication
    tatt,        \* attenuation applied by the last return
    albedo,      \* albedo of the scene's material
    scatters,    \* number of scatter events so far
    intersections, \* number of intersect_scene calls so far
    \* ---- intersect_scene() loop
    spc,         \* "idle" | "loop" | "done"
    ray, spheres, t_min, t_max,
    sidx,        \* loop index i (0-based)
    closest_t, closest_hit

rvars == <<threads, screen_height, screen_width, spp, seed, mainpc, mt, output,
           wpc, wi, wj, ws, wcolor, rows, lockOwner, poisoned, imgbuf, writes,
           oob, holdWrites>>
tvars == <<tpc, tdepth, tstart, tstack, tresult, tchild, tatt, albedo, scatters,
           intersections>>
svars == <<spc, ray, spheres, t_min, t_max, sidx, closest_t, closest_hit>>
vars == <<rvars, tvars, svars>>

\* ------------------------------------------------------------------ bounds
MaxThreads == 2
MaxHeight == 3
MaxWidth == 2
MaxSpp == 2

\* ------------------------------------------------------------ math.rs
Vec3(x, y, z) == [x |-> x, y |-> y, z |-> z]

origin == Vec3(0, 0, 0)

Add(a, b) == Vec3(a.x + b.x, a.y + b.y, a.z + b.z)

Sub(a, b) == Vec3(a.x - b.x, a.y - b.y, a.z - b.z)

dot(a, b) == a.x * b.x + a.y * b.y + a.z * b.z

\* ------------------------------------------------------------ colours
\* product of two fixed-point colour components (twentieths)
FMul(a, b) == (a * b) \div 20

\* impl ops::Mul<f32> for Vector3, the scalar in twentieths
MulScalar(a, k) == Vec3(FMul(a.x, k), FMul(a.y, k), FMul(a.z, k))

\* impl ops::Mul for Vector3
Mul(a, rhs) == Vec3(FMul(a.x, rhs.x), FMul(a.y, rhs.x), FMul(a.z, rhs.x))

\* the miss branch of trace(): t = 0.5 * (unit_direction.y + 1.0), uy in twentieths
Sky(uy) ==
    LET t == (uy + 20) \div 2
    IN  Add(MulScalar(Vec3(20, 20, 20), 20 - t), MulScalar(Vec3(10, 14, 20), t))

\* 1.055 * new^0.416666667 - 0.055, times 255.9, truncated, tabulated at k/20
SrgbTable == <<0, 63, 89, 108, 123, 137, 149, 160, 170, 179, 188, 196, 204, 211,
               218, 225, 231, 238, 244, 250, 255>>

linear_to_srgb(val) ==
    LET new == IF val > 0 THEN val ELSE 0
    IN  IF new >= Len(SrgbTable) - 1 THEN 255 ELSE SrgbTable[new + 1]

\* ------------------------------------------------------------ renderer
NoOwner == -1

Workers == 0 .. threads - 1

Coords == (0 .. screen_width - 1) \X (0 .. screen_height - 1)

\* outcomes of one trace(&ray, &local_scene, 0): absorbed, or sky at three heights
SampleOutcomes == <<origin, Sky(-20), Sky(0), Sky(20)>>

\* seeds of the random source
Seeds == {0, 1}

\* the seeded sample: the colour of sample s of pixel (j, i) is fixed by the seed
TraceSample(sd, j, i, s) == SampleOutcomes[((sd + j + 2 * i + 3 * s) % 4) + 1]

\* Vector3 / f32 of `color.x / spp as f32`
DivScalar(c, n) == Vec3(c.x \div n, c.y \div n, c.z \div n)

\* image::Rgb([linear_to_srgb(color.x / spp), ...])
Pixel(c, n) ==
    LET avg == DivScalar(c, n)
    IN  <<linear_to_srgb(avg.x), linear_to_srgb(avg.y), linear_to_srgb(avg.z)>>

\* image::RgbImage::new(screen_width, screen_height): every pixel zero
NewImage(w, h) == [c \in (0 .. w - 1) \X (0 .. h - 1) |-> <<0, 0, 0>>]

\* every worker starts at row 0
FirstRowZero(t) == 0

\* let mut i = t;
FirstRow(t) == t

\* while i <= screen_height
RowInRangeInclusive(i, h) == i <= h

\* while i < screen_height
RowInRange(i, h) == i < h

\* i += 1;
NextRowByOne(i, n) == i + 1

\* i += threads;
NextRow(i, n) == i + n

\* for j in 0..screen_width
ColInRange(j, w) == j < w

\* put_pixel's bounds check
InBounds(j, i) == j >= 0 /\ j < screen_width /\ i >= 0 /\ i < screen_height

\* a join that does not wait
JoinableAtOnce(h) == TRUE

\* handle.join() returns once the thread has terminated
Joinable(h) == wpc[h] \in {"done", "panicked"}

\* the join result is dropped instead of unwrapped
JoinResultIgnored(h) == TRUE

\* handle.join() is Ok unless the thread panicked; unwrap() panics on Err
JoinOk(h) == wpc[h] # "panicked"

\* a lock that never blocks
LockAlwaysFree == TRUE

\* Mutex::lock() blocks while another guard is alive
LockFree == lockOwner = NoOwner

\* the guard is leaked (mem::forget) instead of dropped
GuardLeaked(k) == k

\* dropping the MutexGuard at the end of the for-body
GuardDropped(k) == NoOwner

\* the process is alive: main has neither panicked nor returned
Running == mainpc \notin {"panicked", "done"}

RenderIdle ==
    /\ threads = 1 /\ screen_height = 0 /\ screen_width = 1 /\ spp = 1 /\ seed = 0
    /\ mainpc = "done" /\ mt = 0 /\ output = <<>>
    /\ wpc = [k \in {0} |-> "done"]
    /\ wi = [k \in {0} |-> 0] /\ wj = [k \in {0} |-> 0] /\ ws = [k \in {0} |-> 0]
    /\ wcolor = [k \in {0} |-> origin]
    /\ rows = [k \in {0} |-> <<>>]
    /\ lockOwner = NoOwner /\ poisoned = FALSE
    /\ imgbuf = NewImage(1, 0) /\ writes = [c \in {} |-> 0]
    /\ oob = FALSE /\ holdWrites = 0

RenderInit ==
    /\ threads \in 1 .. MaxThreads
    /\ screen_height \in 0 .. MaxHeight
    /\ screen_width \in 1 .. MaxWidth
    /\ spp \in 1 .. MaxSpp
    /\ seed \in Seeds
    /\ mainpc = "spawn" /\ mt = 0 /\ output = <<>>
    /\ wpc = [k \in Workers |-> "idle"]
    /\ wi = [k \in Workers |-> 0]
    /\ wj = [k \in Workers |-> 0]
    /\ ws = [k \in Workers |-> 0]
    /\ wcolor = [k \in Workers |-> origin]
    /\ rows = [k \in Workers |-> <<>>]
    /\ lockOwner = NoOwner /\ poisoned = FALSE
    /\ imgbuf = NewImage(screen_width, screen_height)
    /\ writes = [c \in Coords |-> 0]
    /\ oob = FALSE /\ holdWrites = 0

cfgvars == <<threads, screen_height, screen_width, spp, seed>>

\* unwinding destroys the closure's locals
Unwound(k) ==
    /\ wi' = [wi EXCEPT ![k] = 0]
    /\ wj' = [wj EXCEPT ![k] = 0]
    /\ ws' = [ws EXCEPT ![k] = 0]
    /\ wcolor' = [wcolor EXCEPT ![k] = origin]

\* for t in 0..threads { let mut i = t; ... thread::spawn(...); handlers.push(handle) }
Spawn ==
    /\ mainpc = "spawn" /\ mt < threads
    /\ wpc' = [wpc EXCEPT ![mt] = "while"]
    /\ wi' = [wi EXCEPT ![mt] = FirstRow(mt)]
    /\ IF mt + 1 < threads
         THEN mt' = mt + 1 /\ mainpc' = "spawn"
         ELSE mt' = 0 /\ mainpc' = "join"
    /\ UNCHANGED <<tvars, svars, cfgvars, output, wj, ws, wcolor, rows, lockOwner, poisoned,
                   imgbuf, writes, oob, holdWrites>>

\* while i < screen_height { ... }
WhileRow(k) ==
    /\ Running /\ wpc[k] = "while"
    /\ IF RowInRange(wi[k], screen_height)
         THEN /\ wpc' = [wpc EXCEPT ![k] = "for"]
              /\ wj' = [wj EXCEPT ![k] = 0]
              /\ rows' = [rows EXCEPT ![k] = Append(@, wi[k])]
         ELSE /\ wpc' = [wpc EXCEPT ![k] = "done"]
              /\ UNCHANGED <<wj, rows>>
    /\ UNCHANGED <<tvars, svars, cfgvars, mainpc, mt, output, wi, ws, wcolor, lockOwner,
                   poisoned, imgbuf, writes, oob, holdWrites>>

\* for j in 0..screen_width { let mut color = Vector3::origin(); ... } i += threads;
ForCol(k) ==
    /\ Running /\ wpc[k] = "for"
    /\ IF ColInRange(wj[k], screen_width)
         THEN /\ wcolor' = [wcolor EXCEPT ![k] = origin]
              /\ ws' = [ws EXCEPT ![k] = 0]
              /\ wpc' = [wpc EXCEPT ![k] = IF 0 < spp THEN "sample" ELSE "lock"]
              /\ wi' = wi
         ELSE /\ wi' = [wi EXCEPT ![k] = NextRow(@, threads)]
              /\ wpc' = [wpc EXCEPT ![k] = "while"]
              /\ UNCHANGED <<wcolor, ws>>
    /\ UNCHANGED <<tvars, svars, cfgvars, mainpc, mt, output, wj, rows, lockOwner, poisoned,
                   imgbuf, writes, oob, holdWrites>>

\* for _ in 0..spp { ...; color = color + trace(&ray, &local_scene, 0); }
Sample(k) ==
    /\ Running /\ wpc[k] = "sample" /\ ws[k] < spp
    /\ wcolor' = [wcolor EXCEPT ![k] = Add(@, TraceSample(seed, wj[k], wi[k], ws[k]))]
    /\ ws' = [ws EXCEPT ![k] = @ + 1]
    /\ wpc' = [wpc EXCEPT ![k] = IF ws[k] + 1 < spp THEN "sample" ELSE "lock"]
    /\ UNCHANGED <<tvars, svars, cfgvars, mainpc, mt, output, wi, wj, rows, lockOwner, poisoned,
                   imgbuf, writes, oob, holdWrites>>

\* let mut image = imagebuf.lock().unwrap();
Lock(k) ==
    /\ Running /\ wpc[k] = "lock" /\ LockFree
    /\ IF poisoned
         THEN /\ wpc' = [wpc EXCEPT ![k] = "panicked"]
              /\ Unwound(k)
              /\ UNCHANGED <<lockOwner, holdWrites>>
         ELSE /\ wpc' = [wpc EXCEPT ![k] = "put"]
              /\ lockOwner' = k /\ holdWrites' = 0
              /\ UNCHANGED <<wi, wj, ws, wcolor>>
    /\ UNCHANGED <<tvars, svars, cfgvars, mainpc, mt, output, rows, poisoned,
                   imgbuf, writes, oob>>

\* let pixel = image::Rgb([...]); image.put_pixel(j, i, pixel);
PutPixel(k) ==
    /\ Running /\ wpc[k] = "put"
    /\ holdWrites' = holdWrites + 1
    /\ IF InBounds(wj[k], wi[k])
         THEN /\ imgbuf' = [imgbuf EXCEPT ![<<wj[k], wi[k]>>] = Pixel(wcolor[k], spp)]
              /\ writes' = [writes EXCEPT ![<<wj[k], wi[k]>>] = @ + 1]
              /\ wpc' = [wpc EXCEPT ![k] = "drop"]
              /\ UNCHANGED <<oob, poisoned, lockOwner, wi, wj, ws, wcolor>>
         ELSE /\ oob' = TRUE /\ poisoned' = TRUE /\ lockOwner' = NoOwner
              /\ wpc' = [wpc EXCEPT ![k] = "panicked"]
              /\ Unwound(k)
              /\ UNCHANGED <<imgbuf, writes>>
    /\ UNCHANGED <<tvars, svars, cfgvars, mainpc, mt, output, rows>>

\* end of the for-body: the guard `image` goes out of scope, j advances
DropGuard(k) ==
    /\ Running /\ wpc[k] = "drop"
    /\ lockOwner' = GuardDropped(k)
    /\ wj' = [wj EXCEPT ![k] = @ + 1]
    /\ wpc' = [wpc EXCEPT ![k] = "for"]
    /\ UNCHANGED <<tvars, svars, cfgvars, mainpc, mt, output, wi, ws, wcolor, rows, poisoned,
                   imgbuf, writes, oob, holdWrites>>

\* a panic inside the sample loop (trace, make_ray): the thread unwinds
PanicSampling(k) ==
    /\ Running /\ wpc[k] = "sample"
    /\ wpc' = [wpc EXCEPT ![k] = "panicked"]
    /\ Unwound(k)
    /\ UNCHANGED <<tvars, svars, cfgvars, mainpc, mt, output, rows, lockOwner,
                   poisoned, imgbuf, writes, oob, holdWrites>>

\* a panic while the guard is alive: unwinding drops the guard and poisons the mutex
PanicHolding(k) ==
    /\ Running /\ wpc[k] \in {"put", "drop"}
    /\ wpc' = [wpc EXCEPT ![k] = "panicked"]
    /\ lockOwner' = NoOwner /\ poisoned' = TRUE
    /\ Unwound(k)
    /\ UNCHANGED <<tvars, svars, cfgvars, mainpc, mt, output, rows, imgbuf,
                   writes, oob, holdWrites>>

\* for handle in handlers { handle.join().unwrap(); }
Join ==
    /\ mainpc = "join" /\ mt < threads /\ Joinable(mt)
    /\ IF JoinOk(mt)
         THEN IF mt + 1 < threads
                THEN mt' = mt + 1 /\ mainpc' = "join"
                ELSE mt' = mt + 1 /\ mainpc' = "save"
         ELSE mt' = mt /\ mainpc' = "panicked"
    /\ UNCHANGED <<tvars, svars, cfgvars, output, wpc, wi, wj, ws, wcolor, rows, lockOwner,
                   poisoned, imgbuf, writes, oob, holdWrites>>

\* imgbuf.lock().unwrap().save("output.png").unwrap();
Save ==
    /\ mainpc = "save" /\ LockFree
    /\ IF poisoned
         THEN mainpc' = "panicked" /\ output' = output
         ELSE mainpc' = "done" /\ output' = <<imgbuf>>
    /\ UNCHANGED <<tvars, svars, cfgvars, mt, wpc, wi, wj, ws, wcolor, rows, lockOwner, poisoned,
                   imgbuf, writes, oob, holdWrites>>

\* ------------------------------------------------------------ trace()
\* if depth > 50
DepthLimit == 50

MaxStartDepth == 53

\* if depth > 51
DepthExceededLate(depth) == depth > DepthLimit + 1

DepthExceeded(depth) == depth > DepthLimit

\* marks a return that multiplied nothing
NoAtt == <<>>

\* albedos of the scene's materials
Albedos == {Vec3(20, 2, 2), Vec3(10, 10, 16), Vec3(10, 10, 10)}

\* unit_direction.y of a ray that misses, in twentieths
MissHeights == {-20, 0, 20}

TraceIdle ==
    /\ tpc = "idle" /\ tdepth = 0 /\ tstart = 0 /\ tstack = <<>>
    /\ tresult = origin /\ tchild = origin /\ tatt = NoAtt
    /\ albedo = origin /\ scatters = 0 /\ intersections = 0

\* a call trace(ray, spheres, depth) on a scene whose material has the albedo
TraceInit ==
    /\ tpc = "call"
    /\ tstart \in {0} \cup (DepthLimit - 1 .. MaxStartDepth)
    /\ tdepth = tstart
    /\ tstack = <<>>
    /\ tresult = origin /\ tchild = origin /\ tatt = NoAtt
    /\ albedo \in Albedos
    /\ scatters = 0 /\ intersections = 0

\* if depth > 50 { return Vector3::origin(); }
TraceCutoff ==
    /\ UNCHANGED <<rvars, svars>>
    /\ tpc = "call" /\ DepthExceeded(tdepth)
    /\ tresult' = origin /\ tatt' = NoAtt /\ tpc' = "return"
    /\ UNCHANGED <<tdepth, tstart, tstack, tchild, albedo, scatters, intersections>>

\* intersect_scene gives None: the sky gradient
TraceMiss ==
    /\ UNCHANGED <<rvars, svars>>
    /\ tpc = "call" /\ ~DepthExceeded(tdepth)
    /\ \E uy \in MissHeights : tresult' = Sky(uy)
    /\ intersections' = intersections + 1
    /\ tatt' = NoAtt /\ tpc' = "return"
    /\ UNCHANGED <<tdepth, tstart, tstack, tchild, albedo, scatters>>

\* intersect_scene gives Some(hit), scatter gives None
TraceAbsorb ==
    /\ UNCHANGED <<rvars, svars>>
    /\ tpc = "call" /\ ~DepthExceeded(tdepth)
    /\ intersections' = intersections + 1
    /\ tresult' = origin /\ tatt' = NoAtt /\ tpc' = "return"
    /\ UNCHANGED <<tdepth, tstart, tstack, tchild, albedo, scatters>>

\* intersect_scene gives Some(hit), scatter gives Some(scattered):
\* the call trace(&scattered.scattered, &spheres, depth + 1) starts
TraceScatter ==
    /\ UNCHANGED <<rvars, svars>>
    /\ tpc = "call" /\ ~DepthExceeded(tdepth)
    /\ intersections' = intersections + 1
    /\ scatters' = scatters + 1
    /\ tstack' = Append(tstack, albedo)
    /\ tdepth' = tdepth + 1
    /\ UNCHANGED <<tpc, tstart, tresult, tchild, tatt, albedo>>

\* the innermost call returns: its caller computes  result * scattered.attenuation
TraceReturn ==
    /\ UNCHANGED <<rvars, svars>>
    /\ tpc = "return"
    /\ IF tstack = <<>>
         THEN tpc' = "done" /\ UNCHANGED <<tdepth, tstack, tresult, tchild, tatt>>
         ELSE /\ tchild' = tresult
              /\ tatt' = tstack[Len(tstack)]
              /\ tresult' = Mul(tresult, tstack[Len(tstack)])
              /\ tstack' = SubSeq(tstack, 1, Len(tstack) - 1)
              /\ tdepth' = tdepth - 1
              /\ tpc' = "return"
    /\ UNCHANGED <<tstart, albedo, scatters, intersections>>

\* ------------------------------------------------------------ intersection
KMIN_T == 1

MaxSpheres == 2

None == <<>>

\* f32::sqrt on the integer grid
Sqrt(n) == CHOOSE k \in 0 .. n : k * k <= n /\ (k + 1) * (k + 1) > n

point_at_ray(r, t) ==
    Add(r.origin, Vec3(r.direction.x * t, r.direction.y * t, r.direction.z * t))

MkSphere(px, py, r, m) == [position |-> Vec3(px, py, 0), radius |-> r, material |-> m]

\* the two roots of the quadratic, smaller first; <<>> when discriminant <= 0
Roots(r, sphere) ==
    LET oc == Sub(r.origin, sphere.position)
        a == dot(r.direction, r.direction)
        b == dot(oc, r.direction)
        c == dot(oc, oc) - sphere.radius * sphere.radius
        discriminant == b * b - a * c
    IN  IF discriminant > 0
          THEN <<(-b - Sqrt(discriminant)) \div a, (-b + Sqrt(discriminant)) \div a>>
          ELSE <<>>

MkHit(r, sphere, t) ==
    [position |-> point_at_ray(r, t), t |-> t, material |-> sphere.material]

ray_sphere_intersection(r, sphere, tmin, tmax) ==
    LET rt == Roots(r, sphere)
    IN  IF rt = <<>> THEN None
        ELSE IF rt[1] < tmax /\ rt[1] > tmin THEN MkHit(r, sphere, rt[1])
        ELSE IF rt[2] < tmax /\ rt[2] > tmin THEN MkHit(r, sphere, rt[2])
        ELSE None

\* if hit.t > KMIN_T && hit.t < closest_t
Accepts(hit, tmin, closest) == hit.t > KMIN_T /\ hit.t < closest

Rays == {[origin |-> origin, direction |-> Vec3(1, 0, 0)],
         [origin |-> Vec3(1, 0, 0), direction |-> Vec3(1, 0, 0)]}

\* position and radius of the candidate spheres; the material is the list index
SphereShapes == {<<3, 0, 2>>, <<5, 0, 2>>, <<4, 0, 1>>, <<4, 3, 5>>,
                 <<1, 0, 3>>, <<0, 9, 2>>, <<3, 2, 2>>}

SphereLists ==
    UNION {[1 .. n -> SphereShapes] : n \in 0 .. MaxSpheres}

SceneIdle ==
    /\ spc = "idle" /\ ray = [origin |-> origin, direction |-> Vec3(1, 0, 0)]
    /\ spheres = <<>> /\ t_min = 0 /\ t_max = 0 /\ sidx = 0
    /\ closest_t = 0 /\ closest_hit = None

\* let mut closest_t = t_max; let mut closest_hit = None;
SceneInit ==
    /\ spc = "loop"
    /\ ray \in Rays
    /\ \E shapes \in SphereLists :
          spheres = [n \in 1 .. Len(shapes) |->
                        MkSphere(shapes[n][1], shapes[n][2], shapes[n][3], n)]
    /\ t_min \in {0, KMIN_T, 2}
    /\ t_max \in {4, 9}
    /\ sidx = 0
    /\ closest_t = t_max /\ closest_hit = None

\* one iteration of  for i in 0..spheres.len()
SceneStep ==
    /\ UNCHANGED <<rvars, tvars>>
    /\ spc = "loop" /\ sidx < Len(spheres)
    /\ LET result == ray_sphere_intersection(ray, spheres[sidx + 1], t_min, closest_t)
       IN  IF result # None /\ Accepts(result, t_min, closest_t)
             THEN closest_t' = result.t /\ closest_hit' = result
             ELSE UNCHANGED <<closest_t, closest_hit>>
    /\ sidx' = sidx + 1
    /\ UNCHANGED <<spc, ray, spheres, t_min, t_max>>

\* the loop is over: closest_hit is returned
SceneReturn ==
    /\ UNCHANGED <<rvars, tvars>>
    /\ spc = "loop" /\ sidx = Len(spheres)
    /\ spc' = "done"
    /\ UNCHANGED <<ray, spheres, t_min, t_max, sidx, closest_t, closest_hit>>

\* ------------------------------------------------------------ specifications
Init == RenderInit /\ TraceIdle /\ SceneIdle

\* the renderer, worker panics included
Next ==
    \/ Spawn
    \/ Join
    \/ Save
    \/ \E k \in Workers : WhileRow(k)
    \/ \E k \in Workers : ForCol(k)
    \/ \E k \in Workers : Sample(k)
    \/ \E k \in Workers : Lock(k)
    \/ \E k \in Workers : PutPixel(k)
    \/ \E k \in Workers : DropGuard(k)
    \/ \E k \in Workers : PanicSampling(k)
    \/ \E k \in Workers : PanicHolding(k)

Spec == Init /\ [][Next]_vars

\* the renderer when nothing panics
WorkerStep(k) ==
    \/ WhileRow(k)
    \/ ForCol(k)
    \/ Sample(k)
    \/ Lock(k)
    \/ PutPixel(k)
    \/ DropGuard(k)

MainStep ==
    \/ Spawn
    \/ Join
    \/ Save

LiveNext ==
    \/ Spawn
    \/ Join
    \/ Save
    \/ \E k \in Workers : WhileRow(k)
    \/ \E k \in Workers : ForCol(k)
    \/ \E k \in Workers : Sample(k)
    \/ \E k \in Workers : Lock(k)
    \/ \E k \in Workers : PutPixel(k)
    \/ \E k \in Workers : DropGuard(k)

\* the sample values play no part in the scheduling: one seed
LiveInit == Init /\ seed = 0

\* the OS schedules every runnable thread: each thread that can step eventually does
LiveSpec ==
    /\ LiveInit
    /\ [][LiveNext]_vars
    /\ WF_vars(MainStep)
    /\ \A k \in 0 .. MaxThreads - 1 : WF_vars(k \in Workers /\ WorkerStep(k))

TraceInitAll == RenderIdle /\ TraceInit /\ SceneIdle

TraceNext ==
    \/ TraceCutoff
    \/ TraceMiss
    \/ TraceAbsorb
    \/ TraceScatter
    \/ TraceReturn

TraceSpec == TraceInitAll /\ [][TraceNext]_vars

\* a call that can take a step takes it
TraceLiveSpec == TraceSpec /\ WF_vars(TraceNext)

SceneInitAll == RenderIdle /\ TraceIdle /\ SceneInit

SceneNext ==
    \/ SceneStep
    \/ SceneReturn

SceneSpec == SceneInitAll /\ [][SceneNext]_vars

\* ------------------------------------------------------------ properties
\* the rows worker k owns under the strided assignment
OwnedRows(k) == {i \in 0 .. screen_height - 1 : i % threads = k}

RowSet(k) == {rows[k][n] : n \in 1 .. Len(rows[k])}

AllDone == \A k \in Workers : wpc[k] = "done"

\* C1: worker k processes exactly the rows i < H with i mod T = k, in increasing
\* order; no row is processed by two workers and, once all workers are done,
\* every row 0..H-1 has been processed by exactly one worker.
StridedPartition ==
    /\ \A k \in Workers :
          /\ RowSet(k) \subseteq OwnedRows(k)
          /\ \A m, n \in 1 .. Len(rows[k]) : m < n => rows[k][m] < rows[k][n]
          /\ wpc[k] = "done" => RowSet(k) = OwnedRows(k)
    /\ \A k1, k2 \in Workers : k1 # k2 => RowSet(k1) \cap RowSet(k2) = {}
    /\ AllDone => UNION {RowSet(k) : k \in Workers} = 0 .. screen_height - 1

StridedPartitionWitness ==
    /\ AllDone /\ threads = 2
    /\ rows[0] = <<0, 2>> /\ rows[1] = <<1>>

\* C1 also covers more workers than rows: the surplus workers process nothing
StridedPartitionSurplusWitness ==
    /\ AllDone /\ threads > screen_height /\ screen_height >= 1
    /\ rows[threads - 1] = <<>> /\ rows[0] = <<0>>

Terminated(k) == wpc[k] \in {"done", "panicked"}

\* C2: once main is past the join loop (about to save, or saved), every worker
\* thread has terminated: none is sampling, waiting for the lock or writing.
SaveAfterAllJoined ==
    (mainpc \in {"save", "done"} \/ output # <<>>) => \A k \in Workers : Terminated(k)

SaveAfterAllJoinedWitness ==
    /\ mainpc = "done" /\ output = <<imgbuf>>
    /\ threads >= 2 /\ \A k \in Workers : rows[k] # <<>>

Holders == {k \in Workers : wpc[k] \in {"put", "drop"}}

\* C3: at most one worker holds the buffer lock; a holder has finished all spp
\* samples of its pixel; it makes exactly one put_pixel under the guard; and a
\* worker that is not between lock() and the end of the for-body (in
\* particular one that is sampling) does not hold the lock.
LockSerializesWritesOnly ==
    /\ Cardinality(Holders) <= 1
    /\ \A k \in Workers :
          /\ k \in Holders => lockOwner = k /\ ws[k] = spp
          /\ lockOwner = k => k \in Holders
          /\ wpc[k] = "sample" => lockOwner # k
          /\ wpc[k] = "put" => holdWrites = 0
          /\ wpc[k] = "drop" => holdWrites = 1

LockSerializesWritesOnlyWitness ==
    \E k1, k2 \in Workers :
        /\ k1 # k2 /\ spp >= 2
        /\ wpc[k1] = "drop" /\ wpc[k2] = "sample" /\ ws[k2] = 1
        /\ \E c \in Coords : writes[c] = 1 /\ c # <<wj[k1], wi[k1]>>

\* the `for _ in 0..spp` loop of one pixel, run to its end
RECURSIVE SumSamples(_, _, _, _, _)
SumSamples(sd, j, i, s, color) ==
    IF s < spp THEN SumSamples(sd, j, i, s + 1, Add(color, TraceSample(sd, j, i, s)))
    ELSE color

\* the single-threaded render: threads = 1, so the one worker starts at row 0
\* and steps by 1, writing each pixel of each row in turn
RECURSIVE SingleCols(_, _, _)
SingleCols(buf, i, j) ==
    IF j < screen_width
      THEN SingleCols([buf EXCEPT ![<<j, i>>] = Pixel(SumSamples(seed, j, i, 0, origin), spp)],
                      i, j + 1)
      ELSE buf

RECURSIVE SingleRows(_, _)
SingleRows(buf, i) ==
    IF i < screen_height THEN SingleRows(SingleCols(buf, i, 0), i + 1) ELSE buf

SingleThreadedRender == SingleRows(NewImage(screen_width, screen_height), 0)

\* C4: with seeded samples, the buffer handed to save() is the buffer of the
\* single-threaded render, for every thread count and every interleaving.
ParallelEqualsSingleThreaded ==
    output # <<>> => output[1] = SingleThreadedRender

ParallelEqualsSingleThreadedWitness ==
    /\ output # <<>> /\ threads >= 2 /\ screen_height >= 3 /\ screen_width >= 2
    /\ \E c1, c2 \in Coords : output[1][c1] # output[1][c2] /\ output[1][c1] # <<0, 0, 0>>

\* C5: a call at depth > 50 returns black at once, without intersecting or
\* scattering; a call at depth 0 never nests deeper than depth 51, scatters at
\* most 51 times, and returns.
TraceDepthBounded ==
    /\ [](tstart = 0 => (tdepth \in 0 .. 51 /\ scatters <= 51 /\ Len(tstack) <= 51))
    /\ [][(tpc = "call" /\ tdepth > 50) =>
             (/\ tpc' = "return" /\ tresult' = origin
              /\ intersections' = intersections /\ scatters' = scatters
              /\ tstack' = tstack)]_vars
    /\ <>(tpc = "done")

TraceDepthBoundedWitness ==
    /\ tstart = 0 /\ tpc = "done" /\ scatters = 51 /\ intersections = 51
    /\ tresult = origin

\* C6: the value a scattering call returns is the recursive result multiplied
\* componentwise by the attenuation: (r*ar, g*ag, b*ab).
ScatterMultipliesComponentwise ==
    tatt # NoAtt =>
        tresult = Vec3(FMul(tchild.x, tatt.x), FMul(tchild.y, tatt.y), FMul(tchild.z, tatt.z))

\* the roots of sphere n that lie strictly inside (t_min, t_max)
RootsInRange(n) ==
    LET rt == Roots(ray, spheres[n])
    IN  {t \in {rt[m] : m \in 1 .. Len(rt)} : t > t_min /\ t < t_max}

Min(S) == CHOOSE x \in S : \A y \in S : x <= y

Hitters == {n \in 1 .. Len(spheres) : RootsInRange(n) # {}}

NearestT == Min(UNION {RootsInRange(n) : n \in Hitters})

FailFast ==
    (\E k \in Workers : wpc[k] = "panicked") =>
        (mainpc \notin {"save", "done"} /\ output = <<>>)

FailFastWitness ==
    /\ mainpc = "panicked" /\ output = <<>>
    /\ \E k1, k2 \in Workers : wpc[k1] = "panicked" /\ wpc[k2] = "done" /\ k1 > k2
    /\ \E c \in Coords : writes[c] = 1

EveryPixelWritten == \A c \in Coords : writes[c] = 1

\* C9: with fair scheduling and no panic, every worker finishes its rows, a
\* worker waiting for the lock gets it, and main joins all workers and saves.
RenderCompletes ==
    /\ \A k \in 0 .. MaxThreads - 1 :
          (k \in Workers /\ wpc[k] = "lock") ~> (k \in Workers /\ wpc[k] = "put")
    /\ <>(AllDone /\ EveryPixelWritten /\ mainpc = "done" /\ output # <<>>)

RenderCompletesWitness ==
    /\ mainpc = "done" /\ AllDone /\ lockOwner = NoOwner
    /\ threads = MaxThreads /\ screen_height = MaxHeight
    /\ screen_width = MaxWidth /\ spp = MaxSpp

\* C10: no put_pixel is outside the buffer, no coordinate is written twice,
\* and once every worker has finished all width*height pixels are written.
EveryPixelOnce ==
    /\ ~oob
    /\ \A c \in Coords : writes[c] <= 1
    /\ AllDone => \A c \in Coords : writes[c] = 1

EveryPixelOnceWitness ==
    /\ AllDone /\ threads >= 2
    /\ Cardinality(Coords) >= 6
    /\ \A c \in Coords : writes[c] = 1

====
